---------------------------- MODULE Spec2Model ----------------------------
(***************************************************************************)
(* Model of python-patterns.py: a script of top-level snippets.  Each      *)
(* snippet that a property is about is modelled with its inputs drawn from *)
(* bounded sets (the literal of the script always among them); the script  *)
(* as a whole is modelled by the names each block reads and binds and by   *)
(* what each block prints under a given environment.                       *)
(***************************************************************************)
EXTENDS Integers, Sequences, FiniteSets, TLC

VARIABLES
    snippet,        \* which part of the script this behaviour runs
    pc,             \* position inside it
    i,              \* loop index / number of the block last executed
    raised,         \* exception that escaped to top level ("none" if none)
    test_values, default, converted,                  \* lines 342-350
    operations, results,                              \* lines 354-361
    heap, names,                                      \* lines 80-89
    list1, list2, sets,                               \* lines 103-127
    nested_list, flattened,                           \* lines 47-49
    items, seen, duplicates, seen_alt, duplicates_alt,\* lines 197-211
    unique, unique_ordered,                           \* lines 214-224
    large_numbers, first_ten,                         \* lines 439-441
    repeated, first_ten_repeated,                     \* lines 446-448
    envA, envB, outA, outB,                           \* two executions
    bindings, extReads                                \* module namespace

ctlVars  == <<snippet, pc, i, raised>>
convVars == <<test_values, default, converted>>
opsVars  == <<operations, results>>
dictVars == <<heap, names>>
setVars  == <<list1, list2, sets>>
flatVars == <<nested_list, flattened>>
dupVars  == <<items, seen, duplicates, seen_alt, duplicates_alt>>
uniqVars == <<unique, unique_ordered>>
lazyVars == <<large_numbers, first_ten, repeated, first_ten_repeated>>
outVars  == <<envA, envB, outA, outB>>
nsVars   == <<bindings, extReads>>
vars == <<ctlVars, convVars, opsVars, dictVars, setVars, flatVars, dupVars,
          uniqVars, lazyVars, outVars, nsVars>>

ConvIdle == test_values = <<>> /\ default = 0 /\ converted = <<>>
OpsIdle  == operations = <<>> /\ results = <<>>
DictIdle == heap = <<>> /\ names = <<>>
SetIdle  == list1 = <<>> /\ list2 = <<>> /\ sets = <<>>
FlatIdle == nested_list = <<>> /\ flattened = <<>>
DupIdle  == items = <<>> /\ seen = {} /\ duplicates = {} /\ seen_alt = <<>>
            /\ duplicates_alt = {}
UniqIdle == unique = {} /\ unique_ordered = <<>>
LazyIdle == large_numbers = <<>> /\ first_ten = <<>> /\ repeated = <<>>
            /\ first_ten_repeated = <<>>
OutIdle  == envA = <<>> /\ envB = <<>> /\ outA = <<>> /\ outB = <<>>
NsIdle   == bindings = <<>> /\ extReads = {}

(***************************************************************************)
(* Bounds.                                                                 *)
(***************************************************************************)
MaxStrLen == 2      \* length of generated strings
MaxValues == 2      \* length of generated test_values
MaxOps    == 3      \* length of generated operations
MaxVal    == 4      \* dictionary values are 1..MaxVal
MaxListLen  == 2    \* length of generated list1, list2
MaxSubLen   == 2    \* length of a generated sublist
MaxSublists == 3    \* number of generated sublists
MaxItems    == 4    \* length of generated items
MaxEntries  == 1    \* entries in the current directory
MaxSource   == 3    \* length of the list given to cycle()
MaxRange    == 20   \* generated stops of range()

SeqsUpTo(S, n) == UNION {[1..k -> S] : k \in 0..n}

(***************************************************************************)
(* Python values.                                                          *)
(***************************************************************************)
PyInt(n)   == [type |-> "int", int |-> n]
PyStr(cs)  == [type |-> "str", chars |-> cs]
PyNone     == [type |-> "NoneType"]
\* a float: finite (value in hundredths), inf or nan
PyFloat(c, h) == [type |-> "float", cls |-> c, hundredths |-> h]

Return(v) == [ok |-> TRUE, val |-> v]
Raise(e)  == [ok |-> FALSE, exc |-> e]

Digits == {"0", "1", "2", "3", "4", "5", "6", "7", "8", "9"}
DigitVal == "0" :> 0 @@ "1" :> 1 @@ "2" :> 2 @@ "3" :> 3 @@ "4" :> 4 @@
            "5" :> 5 @@ "6" :> 6 @@ "7" :> 7 @@ "8" :> 8 @@ "9" :> 9

RECURSIVE LStrip(_)
LStrip(cs) == IF cs # <<>> /\ Head(cs) = " " THEN LStrip(Tail(cs)) ELSE cs

RECURSIVE RStrip(_)
RStrip(cs) == IF cs # <<>> /\ cs[Len(cs)] = " "
              THEN RStrip(SubSeq(cs, 1, Len(cs) - 1)) ELSE cs

RECURSIVE DigitsValue(_, _)
DigitsValue(cs, acc) == IF cs = <<>> THEN acc
                        ELSE DigitsValue(Tail(cs), 10 * acc + DigitVal[Head(cs)])

\* int(str): surrounding whitespace is dropped, one optional sign, then
\* one or more decimal digits and nothing else; anything else is ValueError
IntOfStr(cs) ==
    LET s    == RStrip(LStrip(cs))
        neg  == s # <<>> /\ Head(s) = "-"
        body == IF s # <<>> /\ Head(s) \in {"-", "+"} THEN Tail(s) ELSE s
    IN  IF body # <<>> /\ \A k \in 1..Len(body) : body[k] \in Digits
        THEN Return(PyInt(IF neg THEN 0 - DigitsValue(body, 0)
                                 ELSE DigitsValue(body, 0)))
        ELSE Raise("ValueError")

\* int(float): truncation toward zero; inf and nan have no integer value
IntOfFloat(v) ==
    CASE v.cls = "inf" -> Raise("OverflowError")
      [] v.cls = "nan" -> Raise("ValueError")
      [] OTHER -> Return(PyInt(IF v.hundredths >= 0
                               THEN v.hundredths \div 100
                               ELSE 0 - ((0 - v.hundredths) \div 100)))

\* the builtin int(value)
IntOf(v) ==
    CASE v.type = "int"      -> Return(v)
      [] v.type = "str"      -> IntOfStr(v.chars)
      [] v.type = "float"    -> IntOfFloat(v)
      [] v.type = "NoneType" -> Raise("TypeError")

(***************************************************************************)
(* Pattern: Convert with fallback (lines 341-350).                         *)
(***************************************************************************)
\* except (ValueError, TypeError)
SafeConvertHandler == {"ValueError", "TypeError"}

safe_convert(value, dflt) ==
    LET r == IntOf(value)
    IN  IF r.ok THEN r
        ELSE IF r.exc \in SafeConvertHandler THEN Return(dflt)
        ELSE r

StrAlphabet == {"4", "a", ".", " ", "-"}
TestValuesLiteral == << PyStr(<<"4", "2">>), PyStr(<<"a", "b", "c">>), PyNone,
                        PyStr(<<"3", ".", "1", "4">>) >>
Floats == {PyFloat("finite", 314), PyFloat("finite", -250),
           PyFloat("inf", 0), PyFloat("nan", 0)}
Values == {PyStr(cs) : cs \in SeqsUpTo(StrAlphabet, MaxStrLen)}
          \cup Floats \cup {PyNone, PyInt(7)}
Defaults == {PyInt(0), PyInt(-1), PyNone}

InitConvert ==
    /\ snippet = "convert" /\ pc = "loop" /\ i = 1 /\ raised = "none"
    /\ test_values \in SeqsUpTo(Values, MaxValues) \cup {TestValuesLiteral}
    /\ default \in Defaults
    /\ converted = <<>>
    /\ OpsIdle /\ DictIdle /\ SetIdle /\ FlatIdle /\ DupIdle /\ UniqIdle /\ LazyIdle
    /\ OutIdle /\ NsIdle

\* one iteration of [safe_convert(val) for val in test_values]
ConvertStep ==
    /\ snippet = "convert" /\ pc = "loop" /\ i <= Len(test_values)
    /\ LET r == safe_convert(test_values[i], default)
       IN  IF r.ok
           THEN /\ converted' = Append(converted, r.val)
                /\ i' = i + 1
                /\ UNCHANGED <<pc, raised>>
           ELSE /\ raised' = r.exc
                /\ pc' = "aborted"
                /\ UNCHANGED <<converted, i>>
    /\ UNCHANGED <<snippet, test_values, default>>
    /\ UNCHANGED <<opsVars, dictVars, setVars, flatVars, dupVars, uniqVars,
                   lazyVars, outVars, nsVars>>

\* the comprehension is exhausted; print(converted)
ConvertDone ==
    /\ snippet = "convert" /\ pc = "loop" /\ i > Len(test_values)
    /\ pc' = "done"
    /\ UNCHANGED <<snippet, i, raised>>
    /\ UNCHANGED <<convVars, opsVars, dictVars, setVars, flatVars, dupVars,
                   uniqVars, lazyVars, outVars, nsVars>>

NextConvert == ConvertStep \/ ConvertDone
SpecConvert == InitConvert /\ [][NextConvert]_vars

\* C1: safe_convert never raises: every value yields int(value) when the
\* conversion succeeds and the caller's default whenever it fails, for any
\* reason; ['42', 'abc', None, '3.14'] with default 0 gives [42, 0, 0, 0].
SafeConvertNeverRaises ==
    snippet = "convert" =>
        /\ raised = "none"
        /\ \A k \in 1..Len(converted) :
              converted[k] = IF IntOf(test_values[k]).ok
                             THEN IntOf(test_values[k]).val ELSE default
        /\ (pc = "done" /\ test_values = TestValuesLiteral /\ default = PyInt(0))
              => converted = <<PyInt(42), PyInt(0), PyInt(0), PyInt(0)>>

(***************************************************************************)
(* Pattern: Multiple operations with single handler (lines 353-361).       *)
(***************************************************************************)
\* a zero-argument operation is the expression its lambda evaluates
OpFloorDiv(a, b) == [op |-> "floordiv", a |-> a, b |-> b]
OpInt(v)         == [op |-> "int", arg |-> v]
OpConst(n)       == [op |-> "const", n |-> n]
OpRaise(e)       == [op |-> "raise", exc |-> e]

\* a // b
FloorDiv(a, b) == IF b = 0 THEN Raise("ZeroDivisionError")
                  ELSE Return(PyInt(a \div b))

\* op()
Call(o) ==
    CASE o.op = "floordiv" -> FloorDiv(o.a, o.b)
      [] o.op = "int"      -> IntOf(o.arg)
      [] o.op = "const"    -> Return(PyInt(o.n))
      [] o.op = "raise"    -> Raise(o.exc)

Exceptions == {"ValueError", "TypeError", "OverflowError", "ZeroDivisionError"}
BaseExceptions == Exceptions \cup {"KeyboardInterrupt", "SystemExit"}

\* a handler that names Exception leaves KeyboardInterrupt and SystemExit
ExceptException == Exceptions

\* the bare except: of line 359
BareExcept == BaseExceptions

OperationsLiteral == << OpFloorDiv(10, 2), OpInt(PyStr(<<"a", "b", "c">>)),
                        OpConst(42) >>
Ops == {OpFloorDiv(10, 2), OpFloorDiv(10, 0), OpInt(PyStr(<<"a", "b", "c">>)),
        OpInt(PyFloat("inf", 0)), OpInt(PyNone), OpInt(PyStr(<<"4">>)),
        OpConst(42), OpRaise("KeyboardInterrupt"), OpRaise("SystemExit")}

InitOperations ==
    /\ snippet = "operations" /\ pc = "loop" /\ i = 1 /\ raised = "none"
    /\ operations \in SeqsUpTo(Ops, MaxOps) \cup {OperationsLiteral}
    /\ results = <<>>
    /\ ConvIdle /\ DictIdle /\ SetIdle /\ FlatIdle /\ DupIdle /\ UniqIdle /\ LazyIdle
    /\ OutIdle /\ NsIdle

\* one iteration of the for loop: try: results.append(op()) except: ...
OperationStep ==
    /\ snippet = "operations" /\ pc = "loop" /\ i <= Len(operations)
    /\ LET r == Call(operations[i])
       IN  IF r.ok
           THEN /\ results' = Append(results, r.val)
                /\ i' = i + 1
                /\ UNCHANGED <<pc, raised>>
           ELSE IF r.exc \in BareExcept
           THEN /\ results' = Append(results, PyNone)
                /\ i' = i + 1
                /\ UNCHANGED <<pc, raised>>
           ELSE /\ raised' = r.exc
                /\ pc' = "aborted"
                /\ UNCHANGED <<results, i>>
    /\ UNCHANGED <<snippet, operations>>
    /\ UNCHANGED <<convVars, dictVars, setVars, flatVars, dupVars, uniqVars,
                   lazyVars, outVars, nsVars>>

\* the loop is exhausted; print(results)
OperationsDone ==
    /\ snippet = "operations" /\ pc = "loop" /\ i > Len(operations)
    /\ pc' = "done"
    /\ UNCHANGED <<snippet, i, raised>>
    /\ UNCHANGED <<convVars, opsVars, dictVars, setVars, flatVars, dupVars,
                   uniqVars, lazyVars, outVars, nsVars>>

NextOperations == OperationStep \/ OperationsDone
SpecOperations == InitOperations /\ [][NextOperations]_vars

\* C2: the loop never aborts; results grows by exactly one entry per
\* operation invoked, in order, the entry being the operation's return value
\* if it completed and None if it failed in any way; when the loop is over
\* there is one entry per operation, and [10//2, int('abc'), 42] gives
\* [5, None, 42].
OperationsLoopTotal ==
    snippet = "operations" =>
        /\ raised = "none" /\ pc \in {"loop", "done"}
        /\ Len(results) = i - 1
        /\ \A k \in 1..Len(results) :
              results[k] = IF Call(operations[k]).ok
                           THEN Call(operations[k]).val ELSE PyNone
        /\ pc = "done" => Len(results) = Len(operations)
        /\ (pc = "done" /\ operations = OperationsLiteral)
              => results = <<PyInt(5), PyNone, PyInt(42)>>

\* a failing operation was followed by one that was still invoked
OperationsLoopWitness ==
    /\ snippet = "operations" /\ pc = "done"
    /\ \E k \in 1..Len(operations) :
          /\ k < Len(operations)
          /\ ~Call(operations[k]).ok /\ Call(operations[k]).exc = "KeyboardInterrupt"
          /\ results[k] = PyNone
          /\ results[k + 1] = PyInt(5)

(***************************************************************************)
(* Pattern: Merge dictionaries, and the alternative (lines 79-89).         *)
(* Dictionaries are objects on a heap: a name holds an object id, so that  *)
(* copy() and update() act on objects and not on values.                   *)
(***************************************************************************)
Keys == {"a", "b", "c"}
Dicts == UNION {[K -> 1..MaxVal] : K \in SUBSET Keys}
Dict1Literal == "a" :> 1 @@ "b" :> 2
Dict2Literal == "b" :> 3 @@ "c" :> 4
EmptyDict == <<>>

\* an update that keeps the entries already present
DictUpdateKeepFirst(d, other) ==
    [k \in DOMAIN d \cup DOMAIN other |-> IF k \in DOMAIN d THEN d[k] ELSE other[k]]

\* d.update(other): every item of other is stored into d
DictUpdate(d, other) ==
    [k \in DOMAIN d \cup DOMAIN other |-> IF k \in DOMAIN other THEN other[k] ELSE d[k]]

\* {**d1, **d2}: a new dictionary receives d1's items, then d2's
DictUnpack(d1, d2) == DictUpdate(DictUpdate(EmptyDict, d1), d2)

\* d.copy(): a new object with the same items
DictCopy(h, o) == [heap |-> Append(h, h[o]), oid |-> Len(h) + 1]

Deref(n) == heap[names[n]]

InitMerge ==
    /\ snippet = "merge" /\ pc = "unpack" /\ i = 0 /\ raised = "none"
    /\ \E d1, d2 \in Dicts : heap = <<d1, d2>>
    /\ names = [dict1 |-> 1, dict2 |-> 2, merged |-> 0, merged_alt |-> 0]
    /\ ConvIdle /\ OpsIdle /\ SetIdle /\ FlatIdle /\ DupIdle /\ UniqIdle /\ LazyIdle
    /\ OutIdle /\ NsIdle

\* merged = {**dict1, **dict2}
MergeUnpack ==
    /\ snippet = "merge" /\ pc = "unpack"
    /\ heap' = Append(heap, DictUnpack(Deref("dict1"), Deref("dict2")))
    /\ names' = [names EXCEPT !.merged = Len(heap) + 1]
    /\ pc' = "copy"
    /\ UNCHANGED <<snippet, i, raised>>
    /\ UNCHANGED <<convVars, opsVars, setVars, flatVars, dupVars, uniqVars,
                   lazyVars, outVars, nsVars>>

\* merged_alt = dict1.copy()
MergeCopy ==
    /\ snippet = "merge" /\ pc = "copy"
    /\ LET c == DictCopy(heap, names.dict1)
       IN  /\ heap' = c.heap
           /\ names' = [names EXCEPT !.merged_alt = c.oid]
    /\ pc' = "update"
    /\ UNCHANGED <<snippet, i, raised>>
    /\ UNCHANGED <<convVars, opsVars, setVars, flatVars, dupVars, uniqVars,
                   lazyVars, outVars, nsVars>>

\* merged_alt.update(dict2)
MergeUpdate ==
    /\ snippet = "merge" /\ pc = "update"
    /\ heap' = [heap EXCEPT ![names.merged_alt] = DictUpdate(@, Deref("dict2"))]
    /\ pc' = "done"
    /\ UNCHANGED <<snippet, i, raised, names>>
    /\ UNCHANGED <<convVars, opsVars, setVars, flatVars, dupVars, uniqVars,
                   lazyVars, outVars, nsVars>>

NextMerge == MergeUnpack \/ MergeCopy \/ MergeUpdate
SpecMerge == InitMerge /\ [][NextMerge]_vars

\* what the merge of d1 and d2 is said to be
IsMergeOf(m, d1, d2) ==
    /\ DOMAIN m = DOMAIN d1 \cup DOMAIN d2
    /\ \A k \in DOMAIN d2 : m[k] = d2[k]
    /\ \A k \in DOMAIN d1 \ DOMAIN d2 : m[k] = d1[k]

MergeResults ==
    snippet = "merge" =>
        /\ pc # "unpack" => IsMergeOf(Deref("merged"), Deref("dict1"), Deref("dict2"))
        /\ pc = "done" => Deref("merged_alt") = Deref("merged")
        /\ (pc = "done" /\ Deref("dict1") = Dict1Literal /\ Deref("dict2") = Dict2Literal)
              => Deref("merged") = ("a" :> 1 @@ "b" :> 3 @@ "c" :> 4)

MergeLeavesInputs ==
    snippet = "merge" => /\ Deref("dict1")' = Deref("dict1")
                         /\ Deref("dict2")' = Deref("dict2")

\* C3: {**dict1, **dict2} has the union of the key sets, dict2's value for
\* every key of dict2 and dict1's value for every other key; copy() then
\* update() gives the same mapping; no step modifies dict1 or dict2;
\* {'a':1,'b':2} and {'b':3,'c':4} give {'a':1,'b':3,'c':4}.
MergeCorrect == []MergeResults /\ [][MergeLeavesInputs]_vars

\* both merges are done, on two mappings that collide on "b" with different
\* values and each have a key of their own
MergeWitness ==
    /\ snippet = "merge" /\ pc = "done"
    /\ Deref("dict1") = Dict1Literal /\ Deref("dict2") = Dict2Literal
    /\ Deref("merged_alt")["b"] = 3

(***************************************************************************)
(* Pattern: Set operations (lines 102-127).                                *)
(***************************************************************************)
Elems == 1..6
List1Literal == <<1, 2, 3, 4>>
List2Literal == <<3, 4, 5, 6>>

\* set(list)
SetOf(l) == {l[k] : k \in DOMAIN l}

\* the operators & ^ | -
SetAnd(a, b) == a \cap b
\* (a - b taken for a ^ b)
SetXorOneSided(a, b) == a \ b
SetXor(a, b) == (a \cup b) \ (a \cap b)
SetOr(a, b)  == a \cup b
SetSub(a, b) == a \ b

\* the methods: each builds its result element by element
set_intersection(a, b)         == {x \in a : x \in b}
set_symmetric_difference(a, b) == {x \in a : x \notin b} \cup {x \in b : x \notin a}
set_union(a, b)                == {x \in Elems : x \in a \/ x \in b}
set_difference(a, b)           == {x \in a : x \notin b}

NoSets == [common |-> {}, common_alt |-> {}, uncommon |-> {}, uncommon_alt |-> {},
           union |-> {}, union_alt |-> {}, difference |-> {}, difference_alt |-> {}]

InitSets ==
    /\ snippet = "sets" /\ pc = "intersection" /\ i = 0 /\ raised = "none"
    /\ list1 \in SeqsUpTo(Elems, MaxListLen) \cup {List1Literal}
    /\ list2 \in SeqsUpTo(Elems, MaxListLen) \cup {List2Literal}
    /\ sets = NoSets
    /\ ConvIdle /\ OpsIdle /\ DictIdle /\ FlatIdle /\ DupIdle /\ UniqIdle /\ LazyIdle
    /\ OutIdle /\ NsIdle

SetsRest == /\ UNCHANGED <<snippet, i, raised, list1, list2>>
            /\ UNCHANGED <<convVars, opsVars, dictVars, flatVars, dupVars,
                           uniqVars, lazyVars, outVars, nsVars>>

\* lines 107-108
SetsIntersection ==
    /\ snippet = "sets" /\ pc = "intersection"
    /\ sets' = [sets EXCEPT !.common = SetAnd(SetOf(list1), SetOf(list2)),
                            !.common_alt = set_intersection(SetOf(list1), SetOf(list2))]
    /\ pc' = "symmetric_difference"
    /\ SetsRest

\* lines 113-114
SetsSymmetricDifference ==
    /\ snippet = "sets" /\ pc = "symmetric_difference"
    /\ sets' = [sets EXCEPT !.uncommon = SetXor(SetOf(list1), SetOf(list2)),
                            !.uncommon_alt =
                                set_symmetric_difference(SetOf(list1), SetOf(list2))]
    /\ pc' = "union"
    /\ SetsRest

\* lines 119-120
SetsUnion ==
    /\ snippet = "sets" /\ pc = "union"
    /\ sets' = [sets EXCEPT !.union = SetOr(SetOf(list1), SetOf(list2)),
                            !.union_alt = set_union(SetOf(list1), SetOf(list2))]
    /\ pc' = "difference"
    /\ SetsRest

\* lines 125-126
SetsDifference ==
    /\ snippet = "sets" /\ pc = "difference"
    /\ sets' = [sets EXCEPT !.difference = SetSub(SetOf(list1), SetOf(list2)),
                            !.difference_alt = set_difference(SetOf(list1), SetOf(list2))]
    /\ pc' = "done"
    /\ SetsRest

NextSets == SetsIntersection \/ SetsSymmetricDifference \/ SetsUnion \/ SetsDifference
SpecSets == InitSets /\ [][NextSets]_vars

\* C4: for [1,2,3,4] and [3,4,5,6] the intersection is {3,4}, the symmetric
\* difference {1,2,5,6}, the union {1,2,3,4,5,6} and the difference {1,2};
\* for each operation the operator form and the method form give the same set.
SetOperationsCorrect ==
    (snippet = "sets" /\ pc = "done") =>
        /\ sets.common = sets.common_alt
        /\ sets.uncommon = sets.uncommon_alt
        /\ sets.union = sets.union_alt
        /\ sets.difference = sets.difference_alt
        /\ (list1 = List1Literal /\ list2 = List2Literal) =>
              /\ sets.common = {3, 4}
              /\ sets.uncommon = {1, 2, 5, 6}
              /\ sets.union = {1, 2, 3, 4, 5, 6}
              /\ sets.difference = {1, 2}

\* the four operations have run on the lists of the script
SetOperationsWitness ==
    /\ snippet = "sets" /\ pc = "done"
    /\ list1 = List1Literal /\ list2 = List2Literal
    /\ sets.uncommon_alt = {1, 2, 5, 6}

(***************************************************************************)
(* Pattern: Flatten nested lists (lines 46-49).                            *)
(***************************************************************************)
FlatElems == {1, 2}
NestedLiteral == << <<1, 2, 3>>, <<4, 5>>, <<6, 7, 8>> >>

\* an inner loop that drops the last element of each sublist
InnerLoopShort(sublist, acc) ==
    IF sublist = <<>> THEN acc
    ELSE acc \o SubSeq(sublist, 1, Len(sublist) - 1)

\* for num in sublist: the element is appended to the result
RECURSIVE InnerLoop(_, _)
InnerLoop(sublist, acc) ==
    IF sublist = <<>> THEN acc
    ELSE InnerLoop(Tail(sublist), Append(acc, Head(sublist)))

InitFlatten ==
    /\ snippet = "flatten" /\ pc = "loop" /\ i = 1 /\ raised = "none"
    /\ nested_list \in SeqsUpTo(SeqsUpTo(FlatElems, MaxSubLen), MaxSublists)
                       \cup {NestedLiteral}
    /\ flattened = <<>>
    /\ ConvIdle /\ OpsIdle /\ DictIdle /\ SetIdle /\ DupIdle /\ UniqIdle /\ LazyIdle
    /\ OutIdle /\ NsIdle

\* one iteration of `for sublist in nested_list`, its inner loop included
FlattenStep ==
    /\ snippet = "flatten" /\ pc = "loop" /\ i <= Len(nested_list)
    /\ flattened' = InnerLoop(nested_list[i], flattened)
    /\ i' = i + 1
    /\ UNCHANGED <<snippet, pc, raised, nested_list>>
    /\ UNCHANGED <<convVars, opsVars, dictVars, setVars, dupVars, uniqVars,
                   lazyVars, outVars, nsVars>>

\* the comprehension is exhausted; print(flattened)
FlattenDone ==
    /\ snippet = "flatten" /\ pc = "loop" /\ i > Len(nested_list)
    /\ pc' = "done"
    /\ UNCHANGED <<snippet, i, raised>>
    /\ UNCHANGED <<convVars, opsVars, dictVars, setVars, flatVars, dupVars,
                   uniqVars, lazyVars, outVars, nsVars>>

NextFlatten == FlattenStep \/ FlattenDone
SpecFlatten == InitFlatten /\ [][NextFlatten]_vars

\* number of elements in the first n sublists
RECURSIVE Offset(_)
Offset(n) == IF n = 0 THEN 0 ELSE Offset(n - 1) + Len(nested_list[n])

\* C7: the result is the concatenation of the sublists in order: the j-th
\* element of the k-th sublist is at position (elements of earlier sublists)
\* + j, nothing else is in the result, so its length is the sum of the
\* sublist lengths; [[1,2,3],[4,5],[6,7,8]] gives [1,2,3,4,5,6,7,8].
FlattenIsConcatenation ==
    snippet = "flatten" =>
        /\ Len(flattened) = Offset(i - 1)
        /\ \A k \in 1..(i - 1) : \A j \in 1..Len(nested_list[k]) :
              flattened[Offset(k - 1) + j] = nested_list[k][j]
        /\ pc = "done" => i - 1 = Len(nested_list)
        /\ (pc = "done" /\ nested_list = NestedLiteral)
              => flattened = <<1, 2, 3, 4, 5, 6, 7, 8>>

\* a list with an empty sublist between two non-empty ones has been flattened
FlattenWitness ==
    /\ snippet = "flatten" /\ pc = "done"
    /\ nested_list = << <<1, 2>>, <<>>, <<2, 1>> >>
    /\ flattened = <<1, 2, 2, 1>>

(***************************************************************************)
(* Pattern: Find duplicates, and the alternative (lines 196-211).          *)
(***************************************************************************)
ItemAlphabet == {"a", "b", "c"}
ItemsLiteral == <<"a", "b", "c", "a", "b", "a">>

\* truth value of an object
Truthy(v) == CASE v.type = "NoneType" -> FALSE
               [] v.type = "int"      -> v.int # 0
               [] v.type = "str"      -> v.chars # <<>>
               [] v.type = "float"    -> ~(v.cls = "finite" /\ v.hundredths = 0)

\* s.add(x): the set is changed in place, the call returns None
SetAdd(s, x) == [set |-> s \cup {x}, ret |-> PyNone]

\* the operands swapped: seen.add(x) or x in seen
SeenAddOrSeen(s, x) ==
    LET a == SetAdd(s, x)
    IN  [set |-> a.set, truth |-> Truthy(a.ret) \/ x \in a.set]

\* x in seen or seen.add(x): the right operand runs only if the left is false
SeenOrAdd(s, x) ==
    IF x \in s THEN [set |-> s, truth |-> TRUE]
    ELSE LET a == SetAdd(s, x) IN [set |-> a.set, truth |-> Truthy(a.ret)]

InitDuplicates ==
    /\ snippet = "duplicates" /\ pc = "generator" /\ i = 1 /\ raised = "none"
    /\ items \in SeqsUpTo(ItemAlphabet, MaxItems) \cup {ItemsLiteral}
    /\ seen = {} /\ duplicates = {} /\ seen_alt = <<>> /\ duplicates_alt = {}
    /\ ConvIdle /\ OpsIdle /\ DictIdle /\ SetIdle /\ FlatIdle /\ UniqIdle /\ LazyIdle
    /\ OutIdle /\ NsIdle

DupRest == /\ UNCHANGED <<snippet, raised, items>>
           /\ UNCHANGED <<convVars, opsVars, dictVars, setVars, flatVars,
                          uniqVars, lazyVars, outVars, nsVars>>

\* set(...) pulls one more x from the generator expression of line 199
DuplicatesStep ==
    /\ snippet = "duplicates" /\ pc = "generator" /\ i <= Len(items)
    /\ LET c == SeenOrAdd(seen, items[i])
       IN  /\ seen' = c.set
           /\ duplicates' = IF c.truth THEN duplicates \cup {items[i]} ELSE duplicates
    /\ i' = i + 1
    /\ UNCHANGED <<pc, seen_alt, duplicates_alt>>
    /\ DupRest

\* the generator is exhausted; print(duplicates); lines 204-205
DuplicatesDone ==
    /\ snippet = "duplicates" /\ pc = "generator" /\ i > Len(items)
    /\ pc' = "loop" /\ i' = 1
    /\ seen_alt' = <<>> /\ duplicates_alt' = {}
    /\ UNCHANGED <<seen, duplicates>>
    /\ DupRest

\* one iteration of the loop of lines 206-210
DuplicatesAltStep ==
    /\ snippet = "duplicates" /\ pc = "loop" /\ i <= Len(items)
    /\ IF items[i] \in DOMAIN seen_alt
       THEN /\ duplicates_alt' = duplicates_alt \cup {items[i]}
            /\ UNCHANGED seen_alt
       ELSE /\ seen_alt' = seen_alt @@ (items[i] :> 1)
            /\ UNCHANGED duplicates_alt
    /\ i' = i + 1
    /\ UNCHANGED <<pc, seen, duplicates>>
    /\ DupRest

\* the loop is exhausted; print(duplicates_alt)
DuplicatesAltDone ==
    /\ snippet = "duplicates" /\ pc = "loop" /\ i > Len(items)
    /\ pc' = "done"
    /\ UNCHANGED <<i, seen, duplicates, seen_alt, duplicates_alt>>
    /\ DupRest

NextDuplicates == DuplicatesStep \/ DuplicatesDone \/ DuplicatesAltStep
                  \/ DuplicatesAltDone
SpecDuplicates == InitDuplicates /\ [][NextDuplicates]_vars

\* number of occurrences of x among the first n items
Occurrences(x, n) == Cardinality({k \in 1..n : items[k] = x})
\* elements occurring at least twice among the first n items
Repeated(n) == {x \in ItemAlphabet : Occurrences(x, n) >= 2}
Distinct(n) == {items[k] : k \in 1..n}

\* C8: the one-line finder and the explicit loop compute the same set, the
\* elements occurring at least twice in items; each 'seen' ends as the
\* distinct elements of items, and at every point of either iteration an
\* element is in the duplicates only if it has occurred twice so far;
\* ['a','b','c','a','b','a'] gives {'a','b'} for both.
DuplicateFindersAgree ==
    snippet = "duplicates" =>
        LET n1 == IF pc = "generator" THEN i - 1 ELSE Len(items)
            n2 == CASE pc = "generator" -> 0
                    [] pc = "loop"      -> i - 1
                    [] OTHER            -> Len(items)
        IN  /\ duplicates = Repeated(n1) /\ seen = Distinct(n1)
            /\ duplicates_alt = Repeated(n2) /\ DOMAIN seen_alt = Distinct(n2)
            /\ pc = "done" => duplicates = duplicates_alt
            /\ (pc = "done" /\ items = ItemsLiteral)
                  => duplicates = {"a", "b"} /\ duplicates_alt = {"a", "b"}

\* both finders are done on a list with a repeated and an unrepeated element
DuplicateFindersWitness ==
    /\ snippet = "duplicates" /\ pc = "done"
    /\ items = ItemsLiteral
    /\ duplicates = {"a", "b"} /\ seen = {"a", "b", "c"}

(***************************************************************************)
(* The script as a whole.  A block is what a "Pattern:" or "Alternative"   *)
(* comment introduces, up to the next such comment or section header; the  *)
(* imports that follow a section header before its first pattern form a    *)
(* block of their own.  For each block: the line of its comment, its       *)
(* section, the module-level names it reads before binding them itself,    *)
(* the names it binds, the names whose object it changes in place, and the *)
(* set of strings it prints (if any), as a sequence.                       *)
(***************************************************************************)
SnippetTable == <<
    \* 1: Pattern: Basic transformation of elements
    [line |-> 14, section |-> 1,
     reads |-> {},
     writes |-> {"lowercase_chars", "s"},
     mutates |-> {}, strset |-> <<>>],
    \* 2: Pattern: Mathematical transformations
    [line |-> 20, section |-> 1,
     reads |-> {},
     writes |-> {"numbers", "squared"},
     mutates |-> {}, strset |-> <<>>],
    \* 3: Pattern: Filter then transform
    [line |-> 27, section |-> 1,
     reads |-> {},
     writes |-> {"alphanumeric_lower", "s"},
     mutates |-> {}, strset |-> <<>>],
    \* 4: Pattern: Extract and convert digits
    [line |-> 33, section |-> 1,
     reads |-> {},
     writes |-> {"digits", "s"},
     mutates |-> {}, strset |-> <<>>],
    \* 5: Pattern: Convert string digits to integers
    [line |-> 39, section |-> 1,
     reads |-> {},
     writes |-> {"converted", "s"},
     mutates |-> {}, strset |-> <<>>],
    \* 6: Pattern: Flatten nested lists
    [line |-> 46, section |-> 1,
     reads |-> {},
     writes |-> {"flattened", "nested_list"},
     mutates |-> {}, strset |-> <<>>],
    \* 7: Pattern: Cartesian product
    [line |-> 52, section |-> 1,
     reads |-> {},
     writes |-> {"colors", "combinations", "sizes"},
     mutates |-> {}, strset |-> <<>>],
    \* 8: Pattern: Matrix transpose
    [line |-> 59, section |-> 1,
     reads |-> {},
     writes |-> {"matrix", "transposed"},
     mutates |-> {}, strset |-> <<>>],
    \* 9: Pattern: Create dictionary with transformation
    [line |-> 73, section |-> 2,
     reads |-> {},
     writes |-> {"char_mapping", "s"},
     mutates |-> {}, strset |-> <<>>],
    \* 10: Pattern: Merge dictionaries (Python 3.5+)
    [line |-> 79, section |-> 2,
     reads |-> {},
     writes |-> {"dict1", "dict2", "merged"},
     mutates |-> {}, strset |-> <<>>],
    \* 11: Alternative merge method
    [line |-> 86, section |-> 2,
     reads |-> {"dict1", "dict2"},
     writes |-> {"merged_alt"},
     mutates |-> {"merged_alt"}, strset |-> <<>>],
    \* 12: Pattern: Set comprehension for unique elements
    [line |-> 96, section |-> 3,
     reads |-> {},
     writes |-> {"s", "unique_chars"},
     mutates |-> {}, strset |-> <<"d", "e", "h", "l", "o", "r", "w">>],
    \* 13: Pattern: Set operations
    [line |-> 102, section |-> 3,
     reads |-> {},
     writes |-> {"common", "common_alt", "difference", "difference_alt", "list1", "list2", "uncommon", "uncommon_alt", "union", "union_alt"},
     mutates |-> {}, strset |-> <<>>],
    \* 14: Pattern: Group items by key
    [line |-> 134, section |-> 4,
     reads |-> {},
     writes |-> {"defaultdict", "grouped", "word", "words"},
     mutates |-> {"grouped"}, strset |-> <<>>],
    \* 15: Pattern: Count occurrences
    [line |-> 143, section |-> 4,
     reads |-> {},
     writes |-> {"Counter", "counted", "items"},
     mutates |-> {}, strset |-> <<>>],
    \* 16: Alternative counting method
    [line |-> 150, section |-> 4,
     reads |-> {"items"},
     writes |-> {"counted_manual", "item"},
     mutates |-> {"counted_manual"}, strset |-> <<>>],
    \* 17: Pattern: Running totals
    [line |-> 161, section |-> 5,
     reads |-> {},
     writes |-> {"accumulate", "cumulative_sum", "numbers"},
     mutates |-> {}, strset |-> <<>>],
    \* 18: Pattern: Reduce operations
    [line |-> 168, section |-> 5,
     reads |-> {},
     writes |-> {"numbers", "product", "reduce"},
     mutates |-> {}, strset |-> <<>>],
    \* 19: Pattern: Find maximum/minimum with conditions
    [line |-> 179, section |-> 6,
     reads |-> {},
     writes |-> {"max_positive", "numbers"},
     mutates |-> {}, strset |-> <<>>],
    \* 20: Pattern: Find indices of specific elements
    [line |-> 185, section |-> 6,
     reads |-> {},
     writes |-> {"indices", "items"},
     mutates |-> {}, strset |-> <<>>],
    \* 21: Alternative method using filter
    [line |-> 191, section |-> 6,
     reads |-> {"items"},
     writes |-> {"indices_alt"},
     mutates |-> {}, strset |-> <<>>],
    \* 22: Pattern: Find duplicates
    [line |-> 196, section |-> 6,
     reads |-> {},
     writes |-> {"duplicates", "items", "seen"},
     mutates |-> {"seen"}, strset |-> <<"a", "b">>],
    \* 23: Alternative duplicate finding
    [line |-> 203, section |-> 6,
     reads |-> {"items"},
     writes |-> {"duplicates_alt", "item", "seen_alt"},
     mutates |-> {"seen_alt", "duplicates_alt"}, strset |-> <<"a", "b">>],
    \* 24: Pattern: Get unique elements (preserving order)
    [line |-> 213, section |-> 6,
     reads |-> {},
     writes |-> {"item", "items", "unique", "unique_ordered"},
     mutates |-> {"unique_ordered"}, strset |-> <<"a", "b", "c">>],
    \* 25: Pattern: Zip and unzip lists
    [line |-> 230, section |-> 7,
     reads |-> {},
     writes |-> {"list1", "list2", "unzipped", "zipped"},
     mutates |-> {}, strset |-> <<>>],
    \* 26: Alternative unzip
    [line |-> 240, section |-> 7,
     reads |-> {"zipped"},
     writes |-> {"list1_unzipped", "list2_unzipped"},
     mutates |-> {}, strset |-> <<>>],
    \* 27: Pattern: Enumerate with indices
    [line |-> 245, section |-> 7,
     reads |-> {},
     writes |-> {"enumerated", "items"},
     mutates |-> {}, strset |-> <<>>],
    \* 28: Pattern: Reverse sequences
    [line |-> 251, section |-> 7,
     reads |-> {},
     writes |-> {"items", "reversed_slice"},
     mutates |-> {}, strset |-> <<>>],
    \* 29: Alternative reverse method
    [line |-> 257, section |-> 7,
     reads |-> {"items"},
     writes |-> {"reversed_func"},
     mutates |-> {}, strset |-> <<>>],
    \* 30: Pattern: Slice sequences
    [line |-> 262, section |-> 7,
     reads |-> {},
     writes |-> {"items", "sliced"},
     mutates |-> {}, strset |-> <<>>],
    \* 31: Alternative slice method
    [line |-> 268, section |-> 7,
     reads |-> {"items"},
     writes |-> {"sliced_alt"},
     mutates |-> {}, strset |-> <<>>],
    \* 32: Pattern: Sort with custom key function
    [line |-> 277, section |-> 8,
     reads |-> {},
     writes |-> {"items", "sorted_by_length"},
     mutates |-> {}, strset |-> <<>>],
    \* 33: Pattern: Join list elements with separator
    [line |-> 288, section |-> 9,
     reads |-> {},
     writes |-> {"sentence", "words"},
     mutates |-> {}, strset |-> <<>>],
    \* 34: Pattern: Split and clean strings
    [line |-> 294, section |-> 9,
     reads |-> {},
     writes |-> {"items", "text"},
     mutates |-> {}, strset |-> <<>>],
    \* 35: Pattern: F-string with expressions
    [line |-> 301, section |-> 9,
     reads |-> {},
     writes |-> {"age", "formatted", "name"},
     mutates |-> {}, strset |-> <<>>],
    \* 36: Pattern: Format with padding/alignment
    [line |-> 307, section |-> 9,
     reads |-> {},
     writes |-> {"numbers", "padded"},
     mutates |-> {}, strset |-> <<>>],
    \* 37: SECTION 10: FILE & PATH PATTERNS
    [line |-> 314, section |-> 10,
     reads |-> {},
     writes |-> {"Path"},
     mutates |-> {}, strset |-> <<>>],
    \* 38: Pattern: Build cross-platform paths
    [line |-> 320, section |-> 10,
     reads |-> {"Path"},
     writes |-> {"file_path"},
     mutates |-> {}, strset |-> <<>>],
    \* 39: Pattern: Get file info
    [line |-> 325, section |-> 10,
     reads |-> {"Path"},
     writes |-> {"current_files"},
     mutates |-> {}, strset |-> <<>>],
    \* 40: Pattern: Safe file reading with context manager (example structure)
    [line |-> 331, section |-> 10,
     reads |-> {},
     writes |-> {},
     mutates |-> {}, strset |-> <<>>],
    \* 41: Pattern: Convert with fallback
    [line |-> 341, section |-> 11,
     reads |-> {},
     writes |-> {"converted", "safe_convert", "test_values"},
     mutates |-> {}, strset |-> <<>>],
    \* 42: Pattern: Multiple operations with single handler
    [line |-> 353, section |-> 11,
     reads |-> {},
     writes |-> {"op", "operations", "results"},
     mutates |-> {"results"}, strset |-> <<>>],
    \* 43: Pattern: Apply function to all elements
    [line |-> 369, section |-> 12,
     reads |-> {},
     writes |-> {"doubled", "numbers"},
     mutates |-> {}, strset |-> <<>>],
    \* 44: Pattern: Filter with condition
    [line |-> 375, section |-> 12,
     reads |-> {"numbers"},
     writes |-> {"evens"},
     mutates |-> {}, strset |-> <<>>],
    \* 45: Pattern: Chain operations with partial
    [line |-> 380, section |-> 12,
     reads |-> {"numbers"},
     writes |-> {"multiply_by_3", "partial", "tripled"},
     mutates |-> {}, strset |-> <<>>],
    \* 46: SECTION 13: DATE & TIME PATTERNS
    [line |-> 388, section |-> 13,
     reads |-> {},
     writes |-> {"datetime", "timedelta"},
     mutates |-> {}, strset |-> <<>>],
    \* 47: Pattern: Date arithmetic
    [line |-> 394, section |-> 13,
     reads |-> {"datetime", "timedelta"},
     writes |-> {"today", "week_ago"},
     mutates |-> {}, strset |-> <<>>],
    \* 48: Pattern: Format dates
    [line |-> 401, section |-> 13,
     reads |-> {"today"},
     writes |-> {"formatted"},
     mutates |-> {}, strset |-> <<>>],
    \* 49: Pattern: Parse date strings
    [line |-> 406, section |-> 13,
     reads |-> {"datetime"},
     writes |-> {"date_str", "parsed"},
     mutates |-> {}, strset |-> <<>>],
    \* 50: Pattern: Check if all/any elements meet condition
    [line |-> 417, section |-> 14,
     reads |-> {},
     writes |-> {"all_even", "any_negative", "numbers"},
     mutates |-> {}, strset |-> <<>>],
    \* 51: Pattern: Validate dictionary keys
    [line |-> 426, section |-> 14,
     reads |-> {},
     writes |-> {"data", "is_valid", "required_keys"},
     mutates |-> {}, strset |-> <<>>],
    \* 52: Pattern: Memory-efficient processing
    [line |-> 438, section |-> 15,
     reads |-> {},
     writes |-> {"first_ten", "large_numbers"},
     mutates |-> {"large_numbers"}, strset |-> <<>>],
    \* 53: Pattern: Lazy evaluation with itertools
    [line |-> 444, section |-> 15,
     reads |-> {},
     writes |-> {"cycle", "first_ten_repeated", "islice", "repeated"},
     mutates |-> {"repeated"}, strset |-> <<>>]
>>

\* line 308 (numbers = [1, 22, 333]) left out of 'Format with padding'
SnippetsWithoutLine308 ==
    [k \in DOMAIN SnippetTable |->
        IF SnippetTable[k].line = 307
        THEN [SnippetTable[k] EXCEPT !.reads = {"numbers"}, !.writes = {"padded"}]
        ELSE SnippetTable[k]]

Snippets == SnippetTable

NumBlocks == Len(Snippets)
BlockAt(line) == CHOOSE k \in 1..NumBlocks : Snippets[k].line = line
AllNames == UNION {Snippets[k].reads \cup Snippets[k].writes : k \in 1..NumBlocks}
LastOfSection(k) == IF k = NumBlocks THEN TRUE
                    ELSE Snippets[k + 1].section # Snippets[k].section
FirstOfSection(k) == IF k = 1 THEN TRUE
                     ELSE Snippets[k - 1].section # Snippets[k].section

(***************************************************************************)
(* Name binding.  The script is run in file order, or one section alone,   *)
(* or one block alone, each from an empty module namespace.  bindings maps *)
(* a name to the block that bound it last (0: unbound); extReads holds the *)
(* <<name, binder>> pairs the last block read.                             *)
(***************************************************************************)
InitScript ==
    /\ \/ snippet = "script"  /\ i = 0
       \/ snippet = "section" /\ \E k \in 1..NumBlocks : FirstOfSection(k) /\ i = k - 1
       \/ snippet = "alone"   /\ i \in 0..(NumBlocks - 1)
    /\ pc = "run" /\ raised = "none"
    /\ bindings = [n \in AllNames |-> 0]
    /\ extReads = {}
    /\ ConvIdle /\ OpsIdle /\ DictIdle /\ SetIdle /\ FlatIdle /\ DupIdle /\ UniqIdle
    /\ LazyIdle /\ OutIdle

\* the next block is executed: reading an unbound name raises NameError,
\* which ends the script
RunBlock ==
    /\ snippet \in {"script", "section", "alone"} /\ pc = "run"
    /\ LET k == i + 1
           b == Snippets[k]
       IN  /\ i' = k
           /\ IF \E n \in b.reads : bindings[n] = 0
              THEN /\ raised' = "NameError"
                   /\ pc' = "aborted"
                   /\ extReads' = {<<n, bindings[n]>> : n \in b.reads}
                   /\ UNCHANGED bindings
              ELSE /\ bindings' = [n \in AllNames |->
                                      IF n \in b.writes THEN k ELSE bindings[n]]
                   /\ extReads' = {<<n, bindings[n]>> : n \in b.reads}
                   /\ pc' = CASE snippet = "alone"   -> "done"
                              [] snippet = "section" ->
                                    IF LastOfSection(k) THEN "done" ELSE "run"
                              [] OTHER ->
                                    IF k = NumBlocks THEN "done" ELSE "run"
                   /\ UNCHANGED raised
    /\ UNCHANGED snippet
    /\ UNCHANGED <<convVars, opsVars, dictVars, setVars, flatVars, dupVars,
                   uniqVars, lazyVars, outVars>>

NextScript == RunBlock
SpecScript == InitScript /\ [][NextScript]_vars

\* the block that binds name n last before block k when the file is run in order
FileOrderBinder(k, n) ==
    LET js == {j \in 1..(k - 1) : n \in Snippets[j].writes}
    IN  IF js = {} THEN 0 ELSE CHOOSE j \in js : \A j2 \in js : j2 <= j

\* C6 (as stated): every snippet reads only names it assigned itself, so
\* none depends on a binding of an earlier snippet and each can be executed
\* alone with the same result as in file order.
SnippetsSelfContained ==
    snippet \in {"script", "section", "alone"} =>
        /\ extReads = {}
        /\ raised = "none"

\* C6 (amended): every name a block reads was bound by the block itself or
\* by an earlier block of the same section; a block changes in place only
\* objects it created itself; so a section executed alone raises no
\* NameError and every read finds the binding it finds in file order.
SnippetsSectionContained ==
    /\ snippet \in {"script", "section"} =>
          /\ raised = "none"
          /\ \A r \in extReads :
                /\ r[2] # 0
                /\ Snippets[r[2]].section = Snippets[i].section
                /\ r[2] = FileOrderBinder(i, r[1])
          /\ i > 0 => Snippets[i].mutates \subseteq Snippets[i].writes
    /\ snippet = "alone" =>
          (raised = "none" /\ \A r \in extReads : r[2] # 0)
              \/ (raised = "NameError" /\ pc = "aborted"
                    /\ \E r \in extReads : r[2] = 0)

\* 'Filter with condition' has run inside its section, started from an empty
\* namespace, and has read the numbers of 'Apply function to all elements'
SnippetsSectionWitness ==
    /\ snippet = "section" /\ i = BlockAt(375)
    /\ extReads = {<<"numbers", BlockAt(369)>>}
    /\ raised = "none"

(***************************************************************************)
(* What the blocks print.  An execution's environment is the instant       *)
(* datetime.now() returns at line 395 (seconds since some epoch), the      *)
(* entries Path('.').iterdir() yields, the string hash seed of the         *)
(* interpreter (it orders the elements of a printed set of strings) and    *)
(* the platform (it chooses the path separator).  Everything else a block  *)
(* prints is computed from the literals written in it or in the blocks of  *)
(* its section, and is represented by the block's number.                  *)
(***************************************************************************)
SecondsPerMinute == 60
SecondsPerHour   == 60 * SecondsPerMinute
SecondsPerDay    == 24 * SecondsPerHour

\* instants around one midnight-aligned base: the base, one second, one
\* minute, one hour and one day later
Clocks == {20000 * SecondsPerDay + d : d \in {0, 1, SecondsPerMinute,
                                             SecondsPerHour, SecondsPerDay}}
Entries == {[name |-> "a.txt", is_file |-> TRUE], [name |-> "sub", is_file |-> FALSE]}
\* directory listings: no two entries share a name
Listings == {l \in SeqsUpTo(Entries, MaxEntries) :
                \A j, k \in DOMAIN l : j # k => l[j].name # l[k].name}
Seeds == {0, 1}
Platforms == {"posix", "nt"}
Envs == [now : Clocks, cwd : Listings, seed : Seeds, platform : Platforms]

\* the date as a day number (the calendar date is a bijection of it)
DateOf(t) == t \div SecondsPerDay
HourOf(t) == (t % SecondsPerDay) \div SecondsPerHour
MinuteOf(t) == (t % SecondsPerHour) \div SecondsPerMinute
SecondOf(t) == t % SecondsPerMinute

\* t - timedelta(days=n)
MinusDays(t, n) == t - n * SecondsPerDay

\* strftime('%Y-%m-%d')
strftime_Ymd(t) == [Ymd |-> DateOf(t)]

\* a format that also shows the seconds: '%Y-%m-%d %H:%M:%S'
strftime_Ymd_HMS(t) == [Ymd |-> DateOf(t), H |-> HourOf(t), M |-> MinuteOf(t),
                        S |-> SecondOf(t)]

\* strftime("%Y-%m-%d %H:%M")
strftime_Ymd_HM(t) == [Ymd |-> DateOf(t), H |-> HourOf(t), M |-> MinuteOf(t)]

\* [p.name for p in Path('.').iterdir() if p.is_file()]
RECURSIVE CurrentFiles(_)
CurrentFiles(l) ==
    IF l = <<>> THEN <<>>
    ELSE IF Head(l).is_file THEN <<Head(l).name>> \o CurrentFiles(Tail(l))
    ELSE CurrentFiles(Tail(l))

\* str(Path("data") / "files" / "document.txt")
PathStr(platform) ==
    LET sep == IF platform = "nt" THEN "\\" ELSE "/"
    IN  <<"data", sep, "files", sep, "document.txt">>

RECURSIVE Reverse(_)
Reverse(q) == IF q = <<>> THEN <<>> ELSE Append(Reverse(Tail(q)), Head(q))

\* the order in which a set of strings is printed follows the hashes
SetRepr(q, seed) == IF seed = 0 THEN q ELSE Reverse(q)

DateArithmetic == BlockAt(394)
FormatDates    == BlockAt(401)
GetFileInfo    == BlockAt(325)
BuildPath      == BlockAt(320)

\* the output of block k in environment e
Printed(k, e) ==
    [block |-> k,
     dates |-> IF k = DateArithmetic
               THEN <<strftime_Ymd(e.now), strftime_Ymd(MinusDays(e.now, 7))>>
               ELSE IF k = FormatDates THEN <<strftime_Ymd_HM(e.now)>>
               ELSE <<>>,
     files |-> IF k = GetFileInfo THEN CurrentFiles(e.cwd) ELSE <<>>,
     path  |-> IF k = BuildPath THEN PathStr(e.platform) ELSE <<>>,
     strs  |-> SetRepr(Snippets[k].strset, e.seed)]

InitOutput ==
    /\ snippet = "output" /\ pc = "run" /\ i = 0 /\ raised = "none"
    /\ envA \in Envs /\ envB \in Envs
    /\ outA = <<>> /\ outB = <<>>
    /\ ConvIdle /\ OpsIdle /\ DictIdle /\ SetIdle /\ FlatIdle /\ DupIdle /\ UniqIdle
    /\ LazyIdle /\ NsIdle

\* both executions run their next block
PrintBlock ==
    /\ snippet = "output" /\ pc = "run" /\ i < NumBlocks
    /\ i' = i + 1
    /\ outA' = Printed(i + 1, envA)
    /\ outB' = Printed(i + 1, envB)
    /\ UNCHANGED <<snippet, pc, raised, envA, envB>>
    /\ UNCHANGED <<convVars, opsVars, dictVars, setVars, flatVars, dupVars,
                   uniqVars, lazyVars, nsVars>>

\* both executions reach the end of the file
OutputDone ==
    /\ snippet = "output" /\ pc = "run" /\ i = NumBlocks
    /\ pc' = "done"
    /\ UNCHANGED <<snippet, i, raised>>
    /\ UNCHANGED <<convVars, opsVars, dictVars, setVars, flatVars, dupVars,
                   uniqVars, lazyVars, outVars, nsVars>>

NextOutput == PrintBlock \/ OutputDone
SpecOutput == InitOutput /\ [][NextOutput]_vars

\* the executions differ in nothing but the clock and the directory
DifferOnlyInClockAndDirectory ==
    envA.seed = envB.seed /\ envA.platform = envB.platform

NotLast(q, x) == q = <<>> \/ q[Len(q)] # x

\* item not in unique_ordered
NotIn(q, x) == \A k \in 1..Len(q) : q[k] # x

InitUnique ==
    /\ snippet = "unique" /\ pc = "set" /\ i = 1 /\ raised = "none"
    /\ items \in SeqsUpTo(ItemAlphabet, MaxItems) \cup {ItemsLiteral}
    /\ seen = {} /\ duplicates = {} /\ seen_alt = <<>> /\ duplicates_alt = {}
    /\ unique = {} /\ unique_ordered = <<>>
    /\ ConvIdle /\ OpsIdle /\ DictIdle /\ SetIdle /\ FlatIdle /\ LazyIdle
    /\ OutIdle /\ NsIdle

UniqueRest == /\ UNCHANGED <<snippet, raised, dupVars>>
              /\ UNCHANGED <<convVars, opsVars, dictVars, setVars, flatVars,
                             lazyVars, outVars, nsVars>>

\* unique = set(items); print(unique); unique_ordered = []
UniqueSet ==
    /\ snippet = "unique" /\ pc = "set"
    /\ unique' = SetOf(items)
    /\ unique_ordered' = <<>>
    /\ pc' = "loop"
    /\ UNCHANGED i
    /\ UniqueRest

\* one iteration of the loop of lines 221-223
UniqueStep ==
    /\ snippet = "unique" /\ pc = "loop" /\ i <= Len(items)
    /\ unique_ordered' = IF NotIn(unique_ordered, items[i])
                         THEN Append(unique_ordered, items[i])
                         ELSE unique_ordered
    /\ i' = i + 1
    /\ UNCHANGED <<pc, unique>>
    /\ UniqueRest

\* the loop is exhausted; print(unique_ordered)
UniqueDone ==
    /\ snippet = "unique" /\ pc = "loop" /\ i > Len(items)
    /\ pc' = "done"
    /\ UNCHANGED <<i, unique, unique_ordered>>
    /\ UniqueRest

NextUnique == UniqueSet \/ UniqueStep \/ UniqueDone
SpecUnique == InitUnique /\ [][NextUnique]_vars

\* index of the first occurrence of x in items
FirstIndex(x) == CHOOSE k \in 1..Len(items) :
                    items[k] = x /\ \A j \in 1..(k - 1) : items[j] # x

\* C9: after every iteration unique_ordered has no element twice, holds
\* exactly the distinct elements of the items processed so far, and lists
\* them in the order of their first occurrence in items; at the end its
\* element set is set(items); ['a','b','c','a','b','a'] gives ['a','b','c'].
UniqueOrderedInvariant ==
    (snippet = "unique" /\ pc \in {"loop", "done"}) =>
        /\ \A a, b \in 1..Len(unique_ordered) :
              a < b => /\ unique_ordered[a] # unique_ordered[b]
                       /\ FirstIndex(unique_ordered[a]) < FirstIndex(unique_ordered[b])
        /\ {unique_ordered[k] : k \in 1..Len(unique_ordered)} = Distinct(i - 1)
        /\ pc = "done" => {unique_ordered[k] : k \in 1..Len(unique_ordered)} = unique
        /\ (pc = "done" /\ items = ItemsLiteral) => unique_ordered = <<"a", "b", "c">>

\* the loop is over on a list whose repeated element is not repeated
\* consecutively and whose first occurrences are not in alphabetical order
UniqueOrderedWitness ==
    /\ snippet = "unique" /\ pc = "done"
    /\ items = <<"b", "a", "b", "c">>
    /\ unique_ordered = <<"b", "a", "c">>

(***************************************************************************)
(* Patterns: Memory-efficient processing, Lazy evaluation with itertools   *)
(* (lines 438-448).                                                        *)
(***************************************************************************)
RangeStop   == 100  \* range(100), line 439
NextCalls   == 10   \* range(10), line 440
IsliceStop  == 10   \* islice(repeated, 10), line 447
SourceLiteral == <<"A", "B", "C">>

StopIteration == Raise("StopIteration")

\* next() of (x**2 for x in range(stop) if x % 2 == 0): the generator
\* resumes at g.x, skips the values its condition rejects and suspends after
\* the first one it accepts; at the end of the range it is exhausted
RECURSIVE GeneratorNext(_)
GeneratorNext(g) ==
    IF g.x >= g.stop THEN [r |-> StopIteration, gen |-> g]
    ELSE IF g.x % 2 = 0
         THEN [r |-> Return(g.x * g.x), gen |-> [g EXCEPT !.x = g.x + 1]]
         ELSE GeneratorNext([g EXCEPT !.x = g.x + 1])

\* an iterator that ends with its source instead of starting over
CycleNextOnce(c) ==
    IF c.pos <= Len(c.source)
    THEN [r |-> Return(c.source[c.pos]), it |-> [c EXCEPT !.pos = c.pos + 1]]
    ELSE [r |-> StopIteration, it |-> c]

\* next() of cycle(source): the elements of the source are yielded and
\* saved; once the source is exhausted the saved elements are yielded again
\* and again; it ends only if nothing was saved
CycleNext(c) ==
    IF c.first /\ c.pos <= Len(c.source)
    THEN [r |-> Return(c.source[c.pos]),
          it |-> [c EXCEPT !.pos = c.pos + 1,
                           !.saved = Append(c.saved, c.source[c.pos])]]
    ELSE LET p == IF c.first THEN 1 ELSE c.pos
         IN  IF c.saved = <<>>
             THEN [r |-> StopIteration, it |-> [c EXCEPT !.first = FALSE]]
             ELSE [r |-> Return(c.saved[p]),
                   it |-> [c EXCEPT !.first = FALSE,
                                    !.pos = (p % Len(c.saved)) + 1]]

InitLazy ==
    /\ snippet = "lazy" /\ pc = "next" /\ i = 1 /\ raised = "none"
    /\ \E stop \in (0..MaxRange) \cup {RangeStop} :
          large_numbers = [x |-> 0, stop |-> stop]
    /\ first_ten = <<>>
    /\ \E src \in SeqsUpTo({"A", "B", "C"}, MaxSource) :
          repeated = [source |-> src, pos |-> 1, saved |-> <<>>, first |-> TRUE]
    /\ first_ten_repeated = <<>>
    /\ ConvIdle /\ OpsIdle /\ DictIdle /\ SetIdle /\ FlatIdle /\ DupIdle
    /\ UniqIdle /\ OutIdle /\ NsIdle

LazyRest == /\ UNCHANGED snippet
            /\ UNCHANGED <<convVars, opsVars, dictVars, setVars, flatVars,
                           dupVars, uniqVars, outVars, nsVars>>

\* one iteration of [next(large_numbers) for _ in range(10)]; a
\* StopIteration leaves the comprehension and ends the script
LazyNext ==
    /\ snippet = "lazy" /\ pc = "next" /\ i <= NextCalls
    /\ LET n == GeneratorNext(large_numbers)
       IN  /\ large_numbers' = n.gen
           /\ IF n.r.ok
              THEN /\ first_ten' = Append(first_ten, n.r.val)
                   /\ i' = i + 1
                   /\ UNCHANGED <<pc, raised>>
              ELSE /\ raised' = n.r.exc
                   /\ pc' = "aborted"
                   /\ UNCHANGED <<first_ten, i>>
    /\ UNCHANGED <<repeated, first_ten_repeated>>
    /\ LazyRest

\* the comprehension is exhausted; print(first_ten); lines 445-446
LazyNextDone ==
    /\ snippet = "lazy" /\ pc = "next" /\ i > NextCalls
    /\ pc' = "islice" /\ i' = 1
    /\ UNCHANGED <<raised, lazyVars>>
    /\ LazyRest

\* list() asks islice(repeated, 10) for one more element
LazyIslice ==
    /\ snippet = "lazy" /\ pc = "islice" /\ i <= IsliceStop
    /\ LET n == CycleNext(repeated)
       IN  /\ repeated' = n.it
           /\ IF n.r.ok
              THEN /\ first_ten_repeated' = Append(first_ten_repeated, n.r.val)
                   /\ i' = i + 1
                   /\ UNCHANGED pc
              ELSE /\ pc' = "done"
                   /\ UNCHANGED <<first_ten_repeated, i>>
    /\ UNCHANGED <<raised, large_numbers, first_ten>>
    /\ LazyRest

\* islice has handed out its ten elements and ends without asking
\* `repeated` again; print(first_ten_repeated)
LazyIsliceDone ==
    /\ snippet = "lazy" /\ pc = "islice" /\ i > IsliceStop
    /\ pc' = "done"
    /\ UNCHANGED <<i, raised, lazyVars>>
    /\ LazyRest

NextLazy == LazyNext \/ LazyNextDone \/ LazyIslice \/ LazyIsliceDone
SpecLazy == InitLazy /\ [][NextLazy]_vars
\* the interpreter always executes the next step of the script
SpecLazyFair == SpecLazy /\ WF_vars(NextLazy)

LazyLiteral == /\ snippet = "lazy"
               /\ large_numbers.stop = RangeStop
               /\ repeated.source = SourceLiteral

LazyResults ==
    snippet = "lazy" =>
        \* next() on range(100): never exhausted, squares of 0, 2, 4, ...
        /\ large_numbers.stop = RangeStop =>
              /\ raised = "none"
              /\ \A k \in 1..Len(first_ten) : first_ten[k] = (2 * (k - 1)) * (2 * (k - 1))
              /\ pc # "next" => Len(first_ten) = 10
        \* each element produced at most once
        /\ \A a, b \in 1..Len(first_ten) : a < b => first_ten[a] < first_ten[b]
        \* islice of cycle: element k (0-based) is source[k mod length]
        /\ repeated.source # <<>> =>
              /\ \A k \in 1..Len(first_ten_repeated) :
                    first_ten_repeated[k]
                        = repeated.source[((k - 1) % Len(repeated.source)) + 1]
              /\ pc = "done" => Len(first_ten_repeated) = 10
        /\ (pc = "done" /\ LazyLiteral) =>
              /\ first_ten = <<0, 4, 16, 36, 64, 100, 144, 196, 256, 324>>
              /\ first_ten_repeated
                    = <<"A", "B", "C", "A", "B", "C", "A", "B", "C", "A">>

\* C10: both snippets terminate with exactly ten elements: the islice of
\* the endless cycle finishes and its k-th element (0-based) is the source's
\* element k mod 3; ten next() calls on the even squares over range(100)
\* raise no StopIteration and give the squares of 0, 2, ..., 18 in order,
\* each produced once.
LazyTerminatesWithTen ==
    /\ []LazyResults
    /\ (LazyLiteral /\ pc = "next") ~> (pc = "done")

\* both lists are complete for the script's own inputs
LazyWitness ==
    /\ pc = "done" /\ LazyLiteral
    /\ Len(first_ten) = 10 /\ Len(first_ten_repeated) = 10
    /\ ~repeated.first

(***************************************************************************)
(* All parts together.                                                     *)
(***************************************************************************)
Init == InitConvert \/ InitOperations \/ InitMerge \/ InitSets \/ InitFlatten
        \/ InitDuplicates \/ InitUnique \/ InitLazy \/ InitScript \/ InitOutput
Next == NextConvert \/ NextOperations \/ NextMerge \/ NextSets \/ NextFlatten
        \/ NextDuplicates \/ NextUnique \/ NextLazy \/ NextScript \/ NextOutput
Spec == Init /\ [][Next]_vars

=============================================================================
